---- MODULE Spec2Model ----
(***************************************************************************)
(* Model of miapy/data/creation/callback.py: the callbacks that write a    *)
(* dataset through a key-addressed writer while a driver traverses the     *)
(* subjects and their files.                                               *)
(*                                                                         *)
(* A path string is modelled by the sequence of its components             *)
(* ("/a/b/c.txt" is <<"a", "b", "c.txt">>, "/" is <<>>); every path is     *)
(* absolute and normalised.  The writer is the log of the calls made on it.*)
(***************************************************************************)
EXTENDS Integers, Sequences, FiniteSets, TLC

\* ------------------------------------------------------------------ bounds
MaxSubjects == 2
MaxSeq == 2
MaxGt == 1
MaxFiles == 3
MaxCount == 11
MaxCalls == 4

\* --------------------------------------------------------------- constants
\* prev_subject_index before any image was recorded (Python's None)
None == -1

SEQ_PATH == "data/sequences"
GT_PATH == "data/gts"
SUBJECT == "meta/subjects"
SHAPE == "meta/shapes"
DIRECTION == "meta/directions"
SPACING == "meta/spacing"
SEQ_NAMES == "meta/sequence_names"
GT_NAMES == "meta/gt_names"
SEQ_FILES == "meta/sequence_files"
GT_FILES == "meta/gt_files"
FILE_ROOT == "meta/file_root"

Hooks == {"on_start", "on_end", "on_subject_start", "on_subject_end",
          "on_gt_file", "on_image_file"}

Classes == {"Callback", "WriteDataCallback", "WriteSubjectCallback",
            "WriteImageInformationCallback", "WriteNamesCallback",
            "WriteFilesCallback"}

VARIABLES
    callbacks,           \* ComposeCallback.callbacks: the ordered children
    subject_files,       \* the subject descriptors the driver traverses
    has_gt,              \* the bundle's has_gt flag
    pc,                  \* the driver's position in its run
    cur,                 \* the driver's current subject index
    seq_done,            \* image-file events fired for the current subject
    gt_done,             \* gt-file events fired for the current subject
    writer,              \* the calls made on the writer, in order
    prev_subject_index,  \* WriteImageInformationCallback.prev_subject_index
    file_root,           \* WriteFilesCallback.file_root: <<>> (None) or <<path>>
    raised,              \* the error the last hook call propagated, or "none"
    params,              \* the bundle of the last hook call
    trace,               \* the child hook invocations of the last hook call
    history              \* the hook calls made so far

vars == <<callbacks, subject_files, has_gt, pc, cur, seq_done, gt_done, writer,
          prev_subject_index, file_root, raised, params, trace, history>>

\* ------------------------------------------------------------------ values
\* A value handed to the writer: a string, a list of strings (a path, a list
\* of names) or a list of numbers.
StrVal(s) == [str |-> s, strs |-> <<>>, nums |-> <<>>]
StrsVal(l) == [str |-> "", strs |-> l, nums |-> <<>>]
NumsVal(l) == [str |-> "", strs |-> <<>>, nums |-> l]
NoVal == [str |-> "", strs |-> <<>>, nums |-> <<>>]

\* An array of a subject (images or labels), named by kind and subject
ArrayVal(kind, i) == [str |-> kind, strs |-> <<>>, nums |-> <<i>>]

\* ------------------------------------------------------------------ writer
reserve(w, key, shape, dtype) ==
    Append(w, [op |-> "reserve", key |-> key, value |-> NoVal, index |-> <<>>,
               shape |-> shape, dtype |-> dtype])

fill(w, key, value, index) ==
    Append(w, [op |-> "fill", key |-> key, value |-> value, index |-> index,
               shape |-> <<>>, dtype |-> ""])

write(w, key, value, dtype) ==
    Append(w, [op |-> "write", key |-> key, value |-> value, index |-> <<>>,
               shape |-> <<>>, dtype |-> dtype])

\* What an array reserved with element type dtype keeps of a value filled
\* into it: an 8-bit unsigned element keeps the number modulo 2^8 (the
\* conversion of the numpy releases that still know np.float, the only ones
\* this file runs on); the other element types keep the value.
Cast(dtype, value) ==
    IF dtype = "uint8"
    THEN [value EXCEPT !.nums = [n \in 1..Len(value.nums) |-> value.nums[n] % 256]]
    ELSE value

\* the value read back from `key` at `index` after the calls w: what the
\* array reserved for the key kept of the last fill at that index
ReadBack(w, key, index) ==
    LET r == CHOOSE c \in 1..Len(w) : w[c].op = "reserve" /\ w[c].key = key
        j == CHOOSE c \in 1..Len(w) :
                /\ w[c].op = "fill" /\ w[c].key = key /\ w[c].index = index
                /\ \A d \in (c + 1)..Len(w) :
                      ~(w[d].op = "fill" /\ w[d].key = key /\ w[d].index = index)
    IN Cast(w[r].dtype, w[j].value)

\* util.IndexExpression(i) and util.IndexExpression(indexing=[i, j], axis=(0, 1))
IndexExpression(indexing) == indexing

\* ----------------------------------------------------------------- strings
Digit == <<"0", "1", "2", "3", "4", "5", "6", "7", "8", "9">>

\* str(n) of a natural number: its decimal digits
str_digits[n \in Nat] ==
    IF n < 10 THEN Digit[n + 1] ELSE str_digits[n \div 10] \o Digit[(n % 10) + 1]

str(n) == str_digits[n]

\* k zeros
zeros[k \in Nat] == IF k = 0 THEN "" ELSE "0" \o zeros[k - 1]

\* '{:0w}'.format(n) of a natural number: zeros on the left up to width w,
\* and no cut when the digits are more than w
zfill(s, w) == IF Len(s) >= w THEN s ELSE zeros[w - Len(s)] \o s

\* the index without the padding
format_index_unpadded(max_digits, n) == str(n)

format_index(max_digits, n) == zfill(str(n), max_digits)

\* ------------------------------------------------------------------- paths
\* the number of leading components on which all the lists of `paths` agree
CommonLength(paths) ==
    LET shortest == CHOOSE n \in {Len(paths[i]) : i \in 1..Len(paths)} :
                        \A i \in 1..Len(paths) : n <= Len(paths[i])
        agree(k) == \A i \in 1..Len(paths) : \A j \in 1..k : paths[i][j] = paths[1][j]
    IN CHOOSE k \in 0..shortest :
          /\ agree(k)
          /\ \A m \in (k + 1)..shortest : ~agree(m)

\* the longest common prefix of two component lists
CommonPrefix(a, b) == SubSeq(a, 1, CommonLength(<<a, b>>))

\* os.path.commonpath(paths): [ok, path]; an empty list is a ValueError
commonpath(paths) ==
    IF paths = <<>> THEN [ok |-> FALSE, path |-> <<>>]
    ELSE [ok |-> TRUE, path |-> SubSeq(paths[1], 1, CommonLength(paths))]

\* os.path.relpath(path, start) of absolute normalised paths
relpath(path, start) ==
    LET i == Len(CommonPrefix(start, path))
        rel_list == [k \in 1..(Len(start) - i) |-> ".."]
                    \o SubSeq(path, i + 1, Len(path))
    IN IF rel_list = <<>> THEN <<".">> ELSE rel_list

\* os.getcwd(): the working directory of the process
getcwd == <<"home", "user">>

\* os.path.join(root, relative)
join(root, relative) == root \o relative

\* ------------------------------------------------------------ image object
\* params['raw_image']: an image object (sitk.Image) with its size, direction
\* and spacing, or some other object
NotAnImage == [is_image |-> FALSE, size |-> <<>>, direction |-> <<>>, spacing |-> <<>>]

GetSize(raw_image) == raw_image.size
GetDirection(raw_image) == raw_image.direction
GetSpacing(raw_image) == raw_image.spacing

\* ------------------------------------------------------ subject descriptors
\* SubjectFile: the subject's identifier, its sequence files (the values of
\* get_sequences(), in order) and its ground-truth files (get_gts(): None or
\* the values in order)
SubjectFile(subject, sequences, gts_none, gts) ==
    [subject |-> subject, sequences |-> sequences, gts_none |-> gts_none, gts |-> gts]

get_sequences(subject_file) == subject_file.sequences
get_gts_is_none(subject_file) == subject_file.gts_none
get_gts(subject_file) == subject_file.gts

\* a state of the callback instances and the writer they share, as a hook
\* finds it and leaves it
Self(w, prev, root, err) ==
    [writer |-> w, prev_subject_index |-> prev, file_root |-> root, raised |-> err]

\* ------------------------------------------------------- WriteDataCallback
\* on_subject_end writing the labels whatever has_gt says
WriteDataCallback_on_subject_end_always_gt(p, self) ==
    LET max_digits == Len(str(Len(p.subject_files)))
        index_str == format_index(max_digits, p.subject_index)
        w1 == write(self.writer, SEQ_PATH \o "/" \o index_str, p.images, "")
    IN [self EXCEPT !.writer = write(w1, GT_PATH \o "/" \o index_str, p.labels, "")]

WriteDataCallback_on_subject_end(p, self) ==
    LET max_digits == Len(str(Len(p.subject_files)))
        index_str == format_index(max_digits, p.subject_index)
        w1 == write(self.writer, SEQ_PATH \o "/" \o index_str, p.images, "")
    IN [self EXCEPT !.writer =
            IF p.has_gt THEN write(w1, GT_PATH \o "/" \o index_str, p.labels, "")
            ELSE w1]

\* ---------------------------------------------------- WriteSubjectCallback
WriteSubjectCallback_on_start(p, self) ==
    LET subject_count == Len(p.subject_files)
    IN [self EXCEPT !.writer = reserve(@, SUBJECT, <<subject_count>>, "str")]

WriteSubjectCallback_on_subject_start(p, self) ==
    [self EXCEPT !.writer =
        fill(@, SUBJECT, StrVal(p.subject), IndexExpression(<<p.subject_index>>))]

\* ------------------------------------------- WriteImageInformationCallback
WriteImageInformationCallback_on_start(p, self) ==
    LET subject_count == Len(p.subject_files)
    IN [self EXCEPT !.writer =
            reserve(reserve(reserve(@, SHAPE, <<subject_count, 3>>, "uint8"),
                            DIRECTION, <<subject_count, 9>>, "float"),
                    SPACING, <<subject_count, 3>>, "float")]

\* on_image_file checking the type of raw_image before the guard
WriteImageInformationCallback_on_image_file_check_first(p, self) ==
    IF ~p.raw_image.is_image THEN [self EXCEPT !.raised = "ValueError"]
    ELSE IF self.prev_subject_index = p.subject_index THEN self
    ELSE LET index == IndexExpression(<<p.subject_index>>)
         IN [self EXCEPT
                !.writer = fill(fill(fill(@, SHAPE, NumsVal(GetSize(p.raw_image)), index),
                                     DIRECTION, NumsVal(GetDirection(p.raw_image)), index),
                                SPACING, NumsVal(GetSpacing(p.raw_image)), index),
                !.prev_subject_index = p.subject_index]

\* on_image_file without the once-per-subject guard
WriteImageInformationCallback_on_image_file_unguarded(p, self) ==
    IF ~p.raw_image.is_image THEN [self EXCEPT !.raised = "ValueError"]
    ELSE LET index == IndexExpression(<<p.subject_index>>)
         IN [self EXCEPT
                !.writer = fill(fill(fill(@, SHAPE, NumsVal(GetSize(p.raw_image)), index),
                                     DIRECTION, NumsVal(GetDirection(p.raw_image)), index),
                                SPACING, NumsVal(GetSpacing(p.raw_image)), index),
                !.prev_subject_index = p.subject_index]

\* on_image_file with a guard that skips every subject index up to the last
\* recorded one
WriteImageInformationCallback_on_image_file_monotone(p, self) ==
    IF p.subject_index <= self.prev_subject_index THEN self
    ELSE IF ~p.raw_image.is_image THEN [self EXCEPT !.raised = "ValueError"]
    ELSE LET index == IndexExpression(<<p.subject_index>>)
         IN [self EXCEPT
                !.writer = fill(fill(fill(@, SHAPE, NumsVal(GetSize(p.raw_image)), index),
                                     DIRECTION, NumsVal(GetDirection(p.raw_image)), index),
                                SPACING, NumsVal(GetSpacing(p.raw_image)), index),
                !.prev_subject_index = p.subject_index]

\* on_image_file recording the subject index before it validates raw_image
WriteImageInformationCallback_on_image_file_record_first(p, self) ==
    IF self.prev_subject_index = p.subject_index THEN self
    ELSE IF ~p.raw_image.is_image
    THEN [self EXCEPT !.raised = "ValueError", !.prev_subject_index = p.subject_index]
    ELSE LET index == IndexExpression(<<p.subject_index>>)
         IN [self EXCEPT
                !.writer = fill(fill(fill(@, SHAPE, NumsVal(GetSize(p.raw_image)), index),
                                     DIRECTION, NumsVal(GetDirection(p.raw_image)), index),
                                SPACING, NumsVal(GetSpacing(p.raw_image)), index),
                !.prev_subject_index = p.subject_index]

WriteImageInformationCallback_on_image_file(p, self) ==
    IF self.prev_subject_index = p.subject_index THEN self
    ELSE IF ~p.raw_image.is_image THEN [self EXCEPT !.raised = "ValueError"]
    ELSE LET index == IndexExpression(<<p.subject_index>>)
         IN [self EXCEPT
                !.writer = fill(fill(fill(@, SHAPE, NumsVal(GetSize(p.raw_image)), index),
                                     DIRECTION, NumsVal(GetDirection(p.raw_image)), index),
                                SPACING, NumsVal(GetSpacing(p.raw_image)), index),
                !.prev_subject_index = p.subject_index]

\* ------------------------------------------------------ WriteNamesCallback
WriteNamesCallback_on_start(p, self) ==
    LET w1 == write(self.writer, SEQ_NAMES, StrsVal(p.sequence_names), "str")
    IN [self EXCEPT !.writer =
            IF p.has_gt THEN write(w1, GT_NAMES, StrsVal(p.gt_names), "str") ELSE w1]

\* ------------------------------------------------------ WriteFilesCallback
get_subject_common(subject_file) ==
    LET all_files == get_sequences(subject_file)
                     \o (IF get_gts_is_none(subject_file) THEN <<>>
                         ELSE get_gts(subject_file))
    IN commonpath(all_files)

\* _get_common_path looking at the first subject only
get_common_path_first_subject(files) == get_subject_common(files[1])

get_common_path(files) ==
    LET commons == [i \in 1..Len(files) |-> get_subject_common(files[i])]
    IN IF \E i \in 1..Len(files) : ~commons[i].ok
       THEN [ok |-> FALSE, path |-> <<>>]
       ELSE commonpath([i \in 1..Len(files) |-> commons[i].path])

WriteFilesCallback_on_start(p, self) ==
    LET root == get_common_path(p.subject_files)
        w1 == write(self.writer, FILE_ROOT, StrsVal(root.path), "str")
        w2 == reserve(w1, SEQ_FILES, <<Len(p.subject_files), Len(p.sequence_names)>>, "str")
    IN IF ~root.ok THEN [self EXCEPT !.raised = "ValueError"]
       ELSE [self EXCEPT
                !.file_root = <<root.path>>,
                !.writer = IF p.has_gt
                           THEN reserve(w2, GT_FILES,
                                        <<Len(p.subject_files), Len(p.gt_names)>>, "str")
                           ELSE w2]

\* os.path.relpath(path, None) is relative to the working directory
start_of(root) == IF root = <<>> THEN getcwd ELSE root[1]

WriteFilesCallback_on_image_file(p, self) ==
    LET relative_path == relpath(p.file, start_of(self.file_root))
        index_expr == IndexExpression(<<p.subject_index, p.sequence_index>>)
    IN [self EXCEPT !.writer = fill(@, SEQ_FILES, StrsVal(relative_path), index_expr)]

\* on_gt_file filling the array of the sequence files
WriteFilesCallback_on_gt_file_as_sequence(p, self) ==
    LET relative_path == relpath(p.file, start_of(self.file_root))
        index_expr == IndexExpression(<<p.subject_index, p.gt_index>>)
    IN [self EXCEPT !.writer = fill(@, SEQ_FILES, StrsVal(relative_path), index_expr)]

WriteFilesCallback_on_gt_file(p, self) ==
    LET relative_path == relpath(p.file, start_of(self.file_root))
        index_expr == IndexExpression(<<p.subject_index, p.gt_index>>)
    IN [self EXCEPT !.writer = fill(@, GT_FILES, StrsVal(relative_path), index_expr)]

\* ---------------------------------------------------------------- Callback
\* the hook `hook` of an instance of class c: the class's own method, or the
\* base class's, which does nothing
CallHook(c, hook, p, self) ==
    CASE c = "WriteDataCallback" /\ hook = "on_subject_end" ->
            WriteDataCallback_on_subject_end(p, self)
      [] c = "WriteSubjectCallback" /\ hook = "on_start" ->
            WriteSubjectCallback_on_start(p, self)
      [] c = "WriteSubjectCallback" /\ hook = "on_subject_start" ->
            WriteSubjectCallback_on_subject_start(p, self)
      [] c = "WriteImageInformationCallback" /\ hook = "on_start" ->
            WriteImageInformationCallback_on_start(p, self)
      [] c = "WriteImageInformationCallback" /\ hook = "on_image_file" ->
            WriteImageInformationCallback_on_image_file(p, self)
      [] c = "WriteNamesCallback" /\ hook = "on_start" ->
            WriteNamesCallback_on_start(p, self)
      [] c = "WriteFilesCallback" /\ hook = "on_start" ->
            WriteFilesCallback_on_start(p, self)
      [] c = "WriteFilesCallback" /\ hook = "on_image_file" ->
            WriteFilesCallback_on_image_file(p, self)
      [] c = "WriteFilesCallback" /\ hook = "on_gt_file" ->
            WriteFilesCallback_on_gt_file(p, self)
      [] OTHER -> self

\* --------------------------------------------------------- ComposeCallback
\* One invocation of a child's hook, recorded: the child, the hook, the bundle
\* it got, how it ended and the writer calls it made.
Recorded(c, hook, p, st, after) ==
    [writer |-> after.writer,
     prev_subject_index |-> after.prev_subject_index,
     file_root |-> after.file_root,
     raised |-> after.raised,
     trace |-> Append(st.trace,
                 [callback |-> c, hook |-> hook, params |-> p,
                  outcome |-> IF after.raised = "none" THEN "returned" ELSE "raised",
                  error |-> after.raised,
                  calls |-> SubSeq(after.writer, Len(st.writer) + 1, Len(after.writer))])]

Invoke(c, hook, p, st) ==
    Recorded(c, hook, p, st,
             CallHook(c, hook, p, Self(st.writer, st.prev_subject_index,
                                       st.file_root, "none")))

\* a loop that goes on to the next child after an error
LoopStep_isolating(c, hook, p, st) == Invoke(c, hook, p, st)

\* one round of the loop: an error raised by an earlier child has left the loop
LoopStep(c, hook, p, st) ==
    IF st.raised # "none" THEN st ELSE Invoke(c, hook, p, st)

\* for c in self.callbacks: c.<hook>(params)
ForEach(cs, hook, p, st) ==
    LET after[k \in 0..Len(cs)] ==
            IF k = 0 THEN st ELSE LoopStep(cs[k], hook, p, after[k - 1])
    IN after[Len(cs)]

\* A ComposeCallback whose children may be ComposeCallbacks themselves: the
\* leaves cs in order, cut into consecutive groups; a group is a nested
\* ComposeCallback of the leaves first..last, or the single leaf itself.
RECURSIVE Groupings(_, _)
Groupings(from, n) ==
    IF from > n THEN { <<>> }
    ELSE UNION { { <<g>> \o rest :
                     g \in { [nested |-> b, first |-> from, last |-> to] :
                               b \in (IF to = from THEN BOOLEAN ELSE {TRUE}) },
                     rest \in Groupings(to + 1, n) } :
                 to \in from..n }

\* one round of the outer loop: the hook of a nested ComposeCallback is its
\* own loop over its children, and an error leaves both loops
NestedStep(g, cs, hook, p, st) ==
    IF st.raised # "none" THEN st
    ELSE IF g.nested THEN ForEach(SubSeq(cs, g.first, g.last), hook, p, st)
    ELSE Invoke(cs[g.first], hook, p, st)

NestedForEach(groups, cs, hook, p, st) ==
    LET after[k \in 0..Len(groups)] ==
            IF k = 0 THEN st ELSE NestedStep(groups[k], cs, hook, p, after[k - 1])
    IN after[Len(groups)]

ComposeCallback_on_start(p, st) == ForEach(callbacks, "on_start", p, st)
ComposeCallback_on_end(p, st) == ForEach(callbacks, "on_end", p, st)
ComposeCallback_on_subject_start(p, st) == ForEach(callbacks, "on_subject_start", p, st)
ComposeCallback_on_subject_end(p, st) == ForEach(callbacks, "on_subject_end", p, st)
\* the loop of on_gt_file calling the hook of its neighbour on_image_file
ComposeCallback_on_gt_file_other(p, st) == ForEach(callbacks, "on_image_file", p, st)

ComposeCallback_on_gt_file(p, st) == ForEach(callbacks, "on_gt_file", p, st)
ComposeCallback_on_image_file(p, st) == ForEach(callbacks, "on_image_file", p, st)

ComposeCallback(hook, p, st) ==
    CASE hook = "on_start" -> ComposeCallback_on_start(p, st)
      [] hook = "on_end" -> ComposeCallback_on_end(p, st)
      [] hook = "on_subject_start" -> ComposeCallback_on_subject_start(p, st)
      [] hook = "on_subject_end" -> ComposeCallback_on_subject_end(p, st)
      [] hook = "on_gt_file" -> ComposeCallback_on_gt_file(p, st)
      [] hook = "on_image_file" -> ComposeCallback_on_image_file(p, st)

\* ------------------------------------------------------------------ driver
\* The driver is outside this file; it is modelled from its ordering
\* contract: on_start once; per subject on_subject_start, the subject's
\* image-file events and then its gt-file events, on_subject_end; then
\* on_end.  An error that a hook propagates ends the run.

\* the names of the sequences and of the ground truths, by position
SeqName == <<"T1", "T2", "T3", "T4", "T5", "T6">>
GtName == <<"GT1", "GT2", "GT3", "GT4", "GT5", "GT6">>

Ident(i) == "Subject_" \o str(i)

MaxOf(S) == IF S = {} THEN 0
            ELSE LET x == CHOOSE y \in S : \A z \in S : z <= y IN x

SequenceNames(files) ==
    SubSeq(SeqName, 1, MaxOf({Len(get_sequences(files[i])) : i \in 1..Len(files)}))

GtNames(files) ==
    SubSeq(GtName, 1, MaxOf({Len(get_gts(files[i])) : i \in 1..Len(files)}))

\* the image object loaded from sequence k of subject i
Image(i, k) ==
    [is_image |-> TRUE, size |-> <<10 + i, 20 + k, 300>>,
     direction |-> <<1, 0, 0, 0, 1, 0, 0, 0, 1>>, spacing |-> <<1, 1, 2 + k>>]

\* the keys every bundle carries, and the defaults of the per-event keys
Bundle ==
    [subject_files |-> subject_files,
     sequence_names |-> SequenceNames(subject_files),
     gt_names |-> GtNames(subject_files),
     has_gt |-> has_gt,
     subject_index |-> None, subject |-> "",
     images |-> NoVal, labels |-> NoVal,
     raw_image |-> NotAnImage, file |-> <<>>,
     sequence_index |-> None, gt_index |-> None]

SubjectBundle(i) ==
    [Bundle EXCEPT !.subject_index = i, !.subject = subject_files[i + 1].subject]

ImageFileBundle(i, k, raw_image) ==
    [SubjectBundle(i) EXCEPT !.file = get_sequences(subject_files[i + 1])[k + 1],
                             !.sequence_index = k, !.raw_image = raw_image]

GtFileBundle(i, k) ==
    [SubjectBundle(i) EXCEPT !.file = get_gts(subject_files[i + 1])[k + 1],
                             !.gt_index = k]

SubjectEndBundle(i) ==
    [SubjectBundle(i) EXCEPT !.images = ArrayVal("images", i),
                             !.labels = ArrayVal("labels", i)]

\* One call of a hook of the ComposeCallback by the driver: the callbacks and
\* the writer are left as the hook left them, and the call is recorded
Returned(hook, p, st) ==
    /\ writer' = st.writer
    /\ prev_subject_index' = st.prev_subject_index
    /\ file_root' = st.file_root
    /\ raised' = st.raised
    /\ trace' = st.trace
    /\ params' = p
    /\ history' = Append(history,
                     [hook |-> hook, subject_index |-> p.subject_index,
                      sequence_index |-> p.sequence_index, gt_index |-> p.gt_index,
                      first |-> Len(writer) + 1, last |-> Len(st.writer),
                      raised |-> st.raised])

Call(hook, p) ==
    Returned(hook, p,
             ComposeCallback(hook, p,
                 [writer |-> writer, prev_subject_index |-> prev_subject_index,
                  file_root |-> file_root, raised |-> "none", trace |-> <<>>]))

Goto(next) == pc' = IF raised' = "none" THEN next ELSE "aborted"

Start ==
    /\ pc = "start"
    /\ Call("on_start", Bundle)
    /\ Goto("subject")
    /\ UNCHANGED <<callbacks, subject_files, has_gt, cur, seq_done, gt_done>>

SubjectStart ==
    /\ pc = "subject"
    /\ Call("on_subject_start", SubjectBundle(cur))
    /\ Goto("files")
    /\ UNCHANGED <<callbacks, subject_files, has_gt, cur, seq_done, gt_done>>

ImageFile ==
    /\ pc = "files"
    /\ seq_done < Len(get_sequences(subject_files[cur + 1]))
    /\ \E raw_image \in {Image(cur, seq_done), NotAnImage} :
          Call("on_image_file", ImageFileBundle(cur, seq_done, raw_image))
    /\ Goto("files")
    /\ seq_done' = seq_done + 1
    /\ UNCHANGED <<callbacks, subject_files, has_gt, cur, gt_done>>

GtFile ==
    /\ pc = "files"
    /\ seq_done = Len(get_sequences(subject_files[cur + 1]))
    /\ ~get_gts_is_none(subject_files[cur + 1])
    /\ gt_done < Len(get_gts(subject_files[cur + 1]))
    /\ Call("on_gt_file", GtFileBundle(cur, gt_done))
    /\ Goto("files")
    /\ gt_done' = gt_done + 1
    /\ UNCHANGED <<callbacks, subject_files, has_gt, cur, seq_done>>

FilesDone ==
    /\ seq_done = Len(get_sequences(subject_files[cur + 1]))
    /\ gt_done = (IF get_gts_is_none(subject_files[cur + 1]) THEN 0
                  ELSE Len(get_gts(subject_files[cur + 1])))

SubjectEnd ==
    /\ pc = "files"
    /\ FilesDone
    /\ Call("on_subject_end", SubjectEndBundle(cur))
    /\ IF cur + 1 < Len(subject_files)
       THEN Goto("subject") /\ cur' = cur + 1
       ELSE Goto("end") /\ cur' = cur
    /\ seq_done' = 0
    /\ gt_done' = 0
    /\ UNCHANGED <<callbacks, subject_files, has_gt>>

End ==
    /\ pc = "end"
    /\ Call("on_end", Bundle)
    /\ Goto("done")
    /\ UNCHANGED <<callbacks, subject_files, has_gt, cur, seq_done, gt_done>>

Next == Start \/ SubjectStart \/ ImageFile \/ GtFile \/ SubjectEnd \/ End

\* ------------------------------------------------------------------ inputs
DataCb == "WriteDataCallback"
SubjectCb == "WriteSubjectCallback"
InfoCb == "WriteImageInformationCallback"
NamesCb == "WriteNamesCallback"
FilesCb == "WriteFilesCallback"

\* the compositions the runs are checked with
ChildLists ==
    { <<>>, <<"Callback">>,
      <<SubjectCb, InfoCb, FilesCb>>,
      <<FilesCb, InfoCb, DataCb>>,
      <<NamesCb, FilesCb, SubjectCb, InfoCb>>,
      <<DataCb, SubjectCb, InfoCb, NamesCb, FilesCb>> }

\* the files of a subject laid out as /data/<subject>/<name>
FilePath(i, name) == <<"data", Ident(i), name>>

\* subject i with n sequence files and g ground-truth files (g = None: get_gts()
\* is None)
LaidOutSubject(i, n, g) ==
    SubjectFile(Ident(i),
                [k \in 1..n |-> FilePath(i, SeqName[k])],
                g = None,
                [k \in 1..(IF g = None THEN 0 ELSE g) |-> FilePath(i, GtName[k])])

LaidOutDatasets ==
    UNION { { [i \in 1..n |-> LaidOutSubject(i - 1, nseq[i], g)] :
                nseq \in [1..n -> 0..MaxSeq], g \in {None, MaxGt} } :
            n \in 1..MaxSubjects }

InitRun ==
    /\ pc = "start"
    /\ cur = 0
    /\ seq_done = 0
    /\ gt_done = 0
    /\ writer = <<>>
    /\ prev_subject_index = None
    /\ file_root = <<>>
    /\ raised = "none"
    /\ trace = <<>>
    /\ history = <<>>

Init ==
    /\ callbacks \in ChildLists
    /\ subject_files \in LaidOutDatasets
    /\ has_gt \in BOOLEAN
    /\ params = Bundle
    /\ InitRun

Spec == Init /\ [][Next]_vars

\* ------------------------------------------------- runs over sets of paths
\* the paths the files are drawn from: none is an ancestor of another
PathPool == { <<"a", "x">>, <<"a", "b", "x">>, <<"c", "x">> }

\* the subjects that own f files in all: their sequence files and ground
\* truths (get_gts() is None when there is none)
PathSubjects(f) ==
    UNION { { [sequences |-> s, gts_none |-> (ns = f), gts |-> g] :
                s \in [1..ns -> PathPool], g \in [1..(f - ns) -> PathPool] } :
            ns \in { m \in 0..MaxSeq : m <= f /\ f - m <= MaxGt } }

\* the lists of n subjects that own at most b files in all, each at least one
RECURSIVE PathSubjectLists(_, _)
PathSubjectLists(n, b) ==
    IF n = 0 THEN { <<>> }
    ELSE UNION { { <<s>> \o rest : s \in PathSubjects(f),
                                   rest \in PathSubjectLists(n - 1, b - f) } :
                 f \in 1..b }

PathDatasets(files) ==
    UNION { { [i \in 1..n |-> SubjectFile(Ident(i - 1), l[i].sequences,
                                          l[i].gts_none, l[i].gts)] :
                l \in PathSubjectLists(n, files) } :
            n \in 1..MaxSubjects }

InitPaths ==
    /\ callbacks = <<FilesCb>>
    /\ subject_files \in PathDatasets(MaxFiles)
    /\ has_gt = (\E i \in 1..Len(subject_files) : ~get_gts_is_none(subject_files[i]))
    /\ params = Bundle
    /\ InitRun

SpecPaths == InitPaths /\ [][Next]_vars

\* ------------------------------------------------ runs over subject counts
\* n subjects; the first owns a sequence file and a ground truth
CountedDatasets ==
    { [i \in 1..n |-> IF i = 1 THEN LaidOutSubject(0, 1, 1)
                                ELSE LaidOutSubject(i - 1, 0, 0)] :
      n \in 1..MaxCount }

InitCount ==
    /\ callbacks = <<DataCb>>
    /\ subject_files \in CountedDatasets
    /\ has_gt \in BOOLEAN
    /\ params = Bundle
    /\ InitRun

SpecCount == InitCount /\ [][Next]_vars

\* ------------------------------------------------- calls in no fixed order
\* A caller that keeps to no order and goes on after an error: any hook, with
\* the bundle of any subject and file, up to MaxCalls calls.
Everything == <<DataCb, SubjectCb, InfoCb, NamesCb, FilesCb>>

TwoSubjects == <<LaidOutSubject(0, 1, 1), LaidOutSubject(1, 1, 1)>>

Unordered == Len(history) < MaxCalls

Kept == UNCHANGED <<callbacks, subject_files, has_gt, pc, cur, seq_done, gt_done>>

AnyStart == Unordered /\ Call("on_start", Bundle) /\ Kept

AnyEnd == Unordered /\ Call("on_end", Bundle) /\ Kept

AnySubjectStart ==
    /\ Unordered
    /\ \E i \in 0..(Len(subject_files) - 1) : Call("on_subject_start", SubjectBundle(i))
    /\ Kept

AnySubjectEnd ==
    /\ Unordered
    /\ \E i \in 0..(Len(subject_files) - 1) : Call("on_subject_end", SubjectEndBundle(i))
    /\ Kept

AnyImageFile ==
    /\ Unordered
    /\ \E i \in 0..(Len(subject_files) - 1) :
       \E k \in 0..(Len(get_sequences(subject_files[i + 1])) - 1) :
       \E raw_image \in {Image(i, k), NotAnImage} :
          Call("on_image_file", ImageFileBundle(i, k, raw_image))
    /\ Kept

AnyGtFile ==
    /\ Unordered
    /\ \E i \in 0..(Len(subject_files) - 1) :
       \E k \in 0..(Len(get_gts(subject_files[i + 1])) - 1) :
          Call("on_gt_file", GtFileBundle(i, k))
    /\ Kept

NextAny ==
    AnyStart \/ AnyEnd \/ AnySubjectStart \/ AnySubjectEnd \/ AnyImageFile \/ AnyGtFile

InitAny ==
    /\ callbacks = Everything
    /\ subject_files = TwoSubjects
    /\ has_gt \in BOOLEAN
    /\ params = Bundle
    /\ InitRun

SpecAny == InitAny /\ [][NextAny]_vars

\* ------------------------------------------- file events for foreign files
\* A caller whose file events may carry a file that is none of the files of
\* subject_files and lies outside their common root.
ForeignFiles == { <<"elsewhere", "T1">> }

ForeignImageFile ==
    /\ Unordered
    /\ \E i \in 0..(Len(subject_files) - 1) : \E f \in ForeignFiles :
          Call("on_image_file", [ImageFileBundle(i, 0, Image(i, 0)) EXCEPT !.file = f])
    /\ Kept

ForeignGtFile ==
    /\ Unordered
    /\ \E i \in 0..(Len(subject_files) - 1) : \E f \in ForeignFiles :
          Call("on_gt_file", [GtFileBundle(i, 0) EXCEPT !.file = f])
    /\ Kept

NextForeign ==
    AnyStart \/ AnyImageFile \/ AnyGtFile \/ ForeignImageFile \/ ForeignGtFile

InitForeign ==
    /\ callbacks = <<FilesCb>>
    /\ subject_files = TwoSubjects
    /\ has_gt \in BOOLEAN
    /\ params = Bundle
    /\ InitRun

SpecForeign == InitForeign /\ [][NextForeign]_vars

\* --------------------------------------------- runs over three callbacks
\* compositions of three callbacks: one that only writes, one that raises on
\* a raw_image that is no image, one that raises on a subject without files
Triples == [1..3 -> {DataCb, InfoCb, FilesCb}]

\* two subjects with files, a subject without any file, and two subjects of
\* which one has ground truths only
TripleDatasets ==
    { <<LaidOutSubject(0, MaxSeq, MaxGt), LaidOutSubject(1, 1, None)>>,
      <<LaidOutSubject(0, 0, None)>>,
      <<LaidOutSubject(0, 1, MaxGt), LaidOutSubject(1, 0, MaxGt)>> }

InitTriples ==
    /\ callbacks \in Triples
    /\ subject_files \in TripleDatasets
    /\ has_gt \in BOOLEAN
    /\ params = Bundle
    /\ InitRun

SpecTriples == InitTriples /\ [][Next]_vars

\* ================================================================== claims
LastCall == history[Len(history)]

\* the writer calls of the children of the last hook call, in order
TraceCalls ==
    LET upto[k \in 0..Len(trace)] ==
            IF k = 0 THEN <<>> ELSE upto[k - 1] \o trace[k].calls
    IN upto[Len(trace)]

\* C1: one call of a hook of ComposeCallback invokes the same-named hook on
\* the children in list order, one after the other, each once, with the
\* bundle the caller passed, and no other hook; every child is invoked when
\* none raises.
C1_DispatchInOrder ==
    history # <<>> =>
        /\ Len(trace) <= Len(callbacks)
        /\ \A i \in 1..Len(trace) :
              /\ trace[i].callback = callbacks[i]
              /\ trace[i].hook = LastCall.hook
              /\ trace[i].params = params
        /\ \A i \in 1..(Len(trace) - 1) : trace[i].outcome = "returned"
        /\ raised = "none" => Len(trace) = Len(callbacks)

\* a gt-file event dispatched to all five callbacks, none raising
C1_Witness ==
    /\ history # <<>>
    /\ LastCall.hook = "on_gt_file"
    /\ callbacks = Everything
    /\ Len(trace) = Len(callbacks)
    /\ raised = "none"

\* C2: ComposeCallback is fail-fast: a child that raises is the last child
\* invoked for that event, the children before it have run and their writer
\* calls stay in the writer, and the caller gets the very error of the child.
C2_FailFast ==
    history # <<>> =>
        /\ \A i \in 1..Len(trace) :
              trace[i].outcome = "raised" =>
                 /\ i = Len(trace)
                 /\ raised = trace[i].error
                 /\ raised # "none"
        /\ raised # "none" =>
              /\ trace # <<>>
              /\ trace[Len(trace)].outcome = "raised"
              /\ \A i \in 1..(Len(trace) - 1) :
                    trace[i].callback = callbacks[i] /\ trace[i].outcome = "returned"
        /\ SubSeq(writer, LastCall.first, Len(writer)) = TraceCalls
        /\ LastCall.last = Len(writer)

\* an image-file event on which WriteFilesCallback filled its cell, then
\* WriteImageInformationCallback raised, and WriteDataCallback was not invoked
C2_Witness ==
    /\ history # <<>>
    /\ callbacks = <<FilesCb, InfoCb, DataCb>>
    /\ LastCall.hook = "on_image_file"
    /\ raised = "ValueError"
    /\ Len(trace) = 2
    /\ Len(trace[1].calls) = 1
    /\ writer[Len(writer)] = trace[1].calls[1]

\* the writer calls that reserve `key`
Reserves(key) ==
    { r \in 1..Len(writer) : writer[r].op = "reserve" /\ writer[r].key = key }

\* writer call r was made during the on_start that opened the run
DuringOnStart(r) ==
    /\ history[1].hook = "on_start"
    /\ history[1].first <= r
    /\ r <= history[1].last

InBounds(index, shape) ==
    /\ Len(index) <= Len(shape)
    /\ \A a \in 1..Len(index) : 0 <= index[a] /\ index[a] < shape[a]

HasAll(cs, S) == S \subseteq { cs[i] : i \in 1..Len(cs) }

\* every fill so far goes to a key reserved once, in on_start, before the
\* fill, and lies inside the reserved shape
FillsAreReserved ==
    \A j \in 1..Len(writer) :
        writer[j].op = "fill" =>
            /\ Cardinality(Reserves(writer[j].key)) = 1
            /\ \A r \in Reserves(writer[j].key) :
                  /\ r < j
                  /\ DuringOnStart(r)
                  /\ InBounds(writer[j].index, writer[r].shape)

\* C3: in a run in driver order over a composition with WriteSubjectCallback,
\* WriteImageInformationCallback and WriteFilesCallback, every key that is
\* filled was reserved exactly once, during on_start, before the fill, and
\* every fill index lies inside the reserved shape.
C3_ReservedOnceBeforeFill ==
    HasAll(callbacks, {SubjectCb, InfoCb, FilesCb}) => FillsAreReserved

\* the same in the runs whose bundle has has_gt true: there the claim holds,
\* so that it fails only through the fills of meta/gt_files of C18
C3_WhenHasGt ==
    (HasAll(callbacks, {SubjectCb, InfoCb, FilesCb}) /\ has_gt) => FillsAreReserved

\* all six keys filled in one run
C3_WhenHasGt_Witness ==
    /\ HasAll(callbacks, {SubjectCb, InfoCb, FilesCb})
    /\ has_gt
    /\ pc = "done"
    /\ \A key \in {SUBJECT, SHAPE, DIRECTION, SPACING, SEQ_FILES, GT_FILES} :
          \E j \in 1..Len(writer) : writer[j].op = "fill" /\ writer[j].key = key

\* the hook calls so far that are image-file events of subject i
ImageCalls(i) ==
    { h \in 1..Len(history) :
        history[h].hook = "on_image_file" /\ history[h].subject_index = i }

\* the fills of row i of `key`
RowFills(key, i) ==
    { j \in 1..Len(writer) :
        writer[j].op = "fill" /\ writer[j].key = key /\ writer[j].index = <<i>> }

InfoKeys == {SHAPE, DIRECTION, SPACING}

\* row i of shape, direction and spacing was filled once, by hook call h, with
\* the size, direction and spacing of the image of that call
FilledOnceBy(i, h) ==
    LET image == Image(i, history[h].sequence_index)
        value(key) == CASE key = SHAPE -> NumsVal(GetSize(image))
                        [] key = DIRECTION -> NumsVal(GetDirection(image))
                        [] key = SPACING -> NumsVal(GetSpacing(image))
    IN \A key \in InfoKeys :
          /\ Cardinality(RowFills(key, i)) = 1
          /\ \A j \in RowFills(key, i) :
                /\ history[h].first <= j
                /\ j <= history[h].last
                /\ writer[j].value = value(key)

\* C4: a fresh WriteImageInformationCallback and a whole run in driver order
\* (one that no raw_image ended with the type-validation error): the rows of
\* every subject with an image file were filled exactly once, by the
\* subject's first image-file event, and no row of a subject without
\* image-file event was filled.
C4_OncePerSubject ==
    (InfoCb \in { callbacks[c] : c \in 1..Len(callbacks) }
       /\ pc = "done") =>
        /\ \A i \in 0..(Len(subject_files) - 1) :
              IF ImageCalls(i) # {}
              THEN \E h \in ImageCalls(i) :
                      /\ \A g \in ImageCalls(i) : h <= g
                      /\ FilledOnceBy(i, h)
              ELSE \A key \in InfoKeys : RowFills(key, i) = {}
        /\ \A j \in 1..Len(writer) :
              (writer[j].op = "fill" /\ writer[j].key \in InfoKeys) =>
                 \E i \in 0..(Len(subject_files) - 1) : writer[j].index = <<i>>

\* a finished run over a subject with two image files and a subject with none
C4_Witness ==
    /\ InfoCb \in { callbacks[c] : c \in 1..Len(callbacks) }
    /\ pc = "done"
    /\ \E i \in 0..(Len(subject_files) - 1) : Cardinality(ImageCalls(i)) = 2
    /\ \E i \in 0..(Len(subject_files) - 1) : ImageCalls(i) = {}
    /\ \E j \in 1..Len(writer) : writer[j].op = "fill" /\ writer[j].key = SHAPE

\* the invocation of WriteImageInformationCallback in a trace
InfoInvoked(tr) == \E i \in 1..Len(tr) : tr[i].callback = InfoCb
InfoOf(tr) == tr[CHOOSE i \in 1..Len(tr) : tr[i].callback = InfoCb]

\* this step is a call of `hook` that reached WriteImageInformationCallback
InfoCalled(hook) ==
    /\ Len(history') = Len(history) + 1
    /\ history'[Len(history')].hook = hook
    /\ InfoInvoked(trace')

\* the call before this step was an image-file event of subject i that reached
\* WriteImageInformationCallback
PreviousWasImageOf(i) ==
    /\ history # <<>>
    /\ LastCall.hook = "on_image_file"
    /\ LastCall.subject_index = i
    /\ InfoInvoked(trace)

ThreeFills(i, raw_image) ==
    << [op |-> "fill", key |-> SHAPE, value |-> NumsVal(raw_image.size),
        index |-> <<i>>, shape |-> <<>>, dtype |-> ""],
       [op |-> "fill", key |-> DIRECTION, value |-> NumsVal(raw_image.direction),
        index |-> <<i>>, shape |-> <<>>, dtype |-> ""],
       [op |-> "fill", key |-> SPACING, value |-> NumsVal(raw_image.spacing),
        index |-> <<i>>, shape |-> <<>>, dtype |-> ""] >>

\* the second of two calls in a row with one subject index is a no-op
SecondIsNoOp ==
    /\ InfoOf(trace').calls = <<>>
    /\ InfoOf(trace').outcome = "returned"
    /\ prev_subject_index' = prev_subject_index

\* a valid image of a subject other than the last recorded one is written
NewSubjectIsWritten ==
    (params'.raw_image.is_image /\ prev_subject_index # params'.subject_index) =>
        /\ InfoOf(trace').calls = ThreeFills(params'.subject_index, params'.raw_image)
        /\ prev_subject_index' = params'.subject_index

\* C5 as claimed: of two on_image_file calls in a row with the same subject
\* index the second issues no writer call and leaves prev_subject_index; a
\* valid image of another subject index than the last written one is written
\* and recorded.
C5_AsClaimed ==
    [][ InfoCalled("on_image_file") =>
           /\ PreviousWasImageOf(params'.subject_index) => SecondIsNoOp
           /\ NewSubjectIsWritten ]_vars

\* C5, amended: the same, for a first call that returned; after a first call
\* that raised on its raw_image, the second call with a valid image writes.
C5_TwiceInARow ==
    [][ InfoCalled("on_image_file") =>
           /\ (PreviousWasImageOf(params'.subject_index)
                 /\ InfoOf(trace).outcome = "returned") => SecondIsNoOp
           /\ NewSubjectIsWritten ]_vars

\* two image-file calls in a row for one subject: the first filled the three
\* rows, the second made no writer call
C5_Witness ==
    /\ Len(history) >= 2
    /\ LastCall.hook = "on_image_file"
    /\ history[Len(history) - 1].hook = "on_image_file"
    /\ history[Len(history) - 1].subject_index = LastCall.subject_index
    /\ history[Len(history) - 1].raised = "none"
    /\ \E j \in history[Len(history) - 1].first..history[Len(history) - 1].last :
          writer[j].key = SHAPE /\ writer[j].index = <<LastCall.subject_index>>
    /\ InfoInvoked(trace)
    /\ InfoOf(trace).calls = <<>>
    /\ prev_subject_index = LastCall.subject_index

\* C8 as claimed: whenever on_image_file of WriteImageInformationCallback gets
\* a raw_image that is no image object it raises the type-validation error,
\* whatever the subject index and the calls before.
C8_AsClaimed ==
    (history # <<>> /\ LastCall.hook = "on_image_file" /\ InfoInvoked(trace)
       /\ ~params.raw_image.is_image) =>
        /\ InfoOf(trace).outcome = "raised"
        /\ InfoOf(trace).error = "ValueError"

\* C8, amended: it raises the type-validation error, and writes nothing,
\* whenever the subject index differs from the last recorded one; with the
\* last recorded subject index it returns before it looks at raw_image.
C8_RaisesUnlessSkipped ==
    [][ (InfoCalled("on_image_file") /\ ~params'.raw_image.is_image) =>
           /\ InfoOf(trace').calls = <<>>
           /\ prev_subject_index' = prev_subject_index
           /\ IF prev_subject_index # params'.subject_index
              THEN /\ InfoOf(trace').outcome = "raised"
                   /\ InfoOf(trace').error = "ValueError"
                   /\ raised' = "ValueError"
              ELSE InfoOf(trace').outcome = "returned" ]_vars

\* a raw_image that is no image object, after an image of another subject
\* was recorded: the call raised
C8_Witness ==
    /\ history # <<>>
    /\ LastCall.hook = "on_image_file"
    /\ ~params.raw_image.is_image
    /\ prev_subject_index # None
    /\ prev_subject_index # params.subject_index
    /\ InfoInvoked(trace)
    /\ InfoOf(trace).error = "ValueError"
    /\ raised = "ValueError"

\* the number of decimal digits of n, by its size
Width(n) == IF n < 10 THEN 1 ELSE IF n < 100 THEN 2 ELSE 3

\* the strings of w decimal digits, each with the number it denotes
DigitStrings[w \in 0..3] ==
    IF w = 0 THEN { [s |-> "", v |-> 0] }
    ELSE { [s |-> d.s \o Digit[k + 1], v |-> (d.v * 10) + k] :
             d \in DigitStrings[w - 1], k \in 0..9 }

\* s is the number i written with exactly w decimal digits
IsPadded(s, w, i) == \E d \in DigitStrings[w] : d.s = s /\ d.v = i

\* the on_subject_end calls made so far
SubjectEnds == { h \in 1..Len(history) : history[h].hook = "on_subject_end" }

\* C6: the index in the keys of WriteDataCallback.on_subject_end has exactly
\* len(str(N)) decimal digits, zero-padded, for N subjects, and the keys of
\* different subjects of a run differ.
C6_PaddedIndex ==
    LET w == Width(Len(subject_files))
    IN /\ \A h \in SubjectEnds :
             /\ writer[history[h].first].op = "write"
             /\ \E d \in DigitStrings[w] :
                   /\ d.v = history[h].subject_index
                   /\ writer[history[h].first].key = SEQ_PATH \o "/" \o d.s
                   /\ has_gt => writer[history[h].last].key = GT_PATH \o "/" \o d.s
       /\ \A g, h \in SubjectEnds :
             history[g].subject_index # history[h].subject_index =>
                \A a \in history[g].first..history[g].last :
                \A b \in history[h].first..history[h].last :
                   writer[a].key # writer[b].key

\* a run over eleven subjects wrote the keys of subjects 3 and 10
C6_Witness ==
    /\ Len(subject_files) > 10
    /\ \E j \in 1..Len(writer) : writer[j].key = "data/sequences/03"
    /\ \E j \in 1..Len(writer) : writer[j].key = "data/sequences/10"
    /\ \E j \in 1..Len(writer) : writer[j].key = "data/gts/10"

\* C7: on_subject_end of WriteDataCallback issues one whole-value write of the
\* images to data/sequences/<index>, one more of the labels to
\* data/gts/<index> exactly when has_gt, and no reserve and no fill; its other
\* hooks issue no writer call.
C7_WritesOfData ==
    \A c \in 1..Len(trace) :
        trace[c].callback = DataCb =>
            IF trace[c].hook = "on_subject_end"
            THEN LET i == trace[c].params.subject_index
                     images == [op |-> "write", key |-> SEQ_PATH \o "/" \o Digit[i + 1],
                                value |-> ArrayVal("images", i), index |-> <<>>,
                                shape |-> <<>>, dtype |-> ""]
                     labels == [op |-> "write", key |-> GT_PATH \o "/" \o Digit[i + 1],
                                value |-> ArrayVal("labels", i), index |-> <<>>,
                                shape |-> <<>>, dtype |-> ""]
                 IN trace[c].calls = IF has_gt THEN <<images, labels>> ELSE <<images>>
            ELSE trace[c].calls = <<>>

\* on_subject_end of the second subject in a run without ground truth: one
\* write, of the images
C7_Witness ==
    /\ history # <<>>
    /\ LastCall.hook = "on_subject_end"
    /\ LastCall.subject_index = 1
    /\ ~has_gt
    /\ callbacks = Everything
    /\ Len(trace[1].calls) = 1
    /\ trace[1].calls[1].key = "data/sequences/1"

\* every file the subjects refer to
AllFiles ==
    UNION { { get_sequences(subject_files[i])[k] :
                k \in 1..Len(get_sequences(subject_files[i])) }
            \cup (IF get_gts_is_none(subject_files[i]) THEN {}
                  ELSE { get_gts(subject_files[i])[k] :
                           k \in 1..Len(get_gts(subject_files[i])) }) :
            i \in 1..Len(subject_files) }

IsPrefix(a, b) == Len(a) <= Len(b) /\ SubSeq(b, 1, Len(a)) = a

\* directory d lies above file f
IsStrictAncestor(d, f) == IsPrefix(d, f) /\ Len(d) < Len(f)

\* d is the longest directory that lies above every file
IsLongestCommonDirectory(d) ==
    /\ \A f \in AllFiles : IsStrictAncestor(d, f)
    /\ \A f \in AllFiles : \A n \in 0..Len(f) :
          (\A g \in AllFiles : IsStrictAncestor(SubSeq(f, 1, n), g)) => n <= Len(d)

\* on_start of WriteFilesCallback has returned for subjects that each own a
\* sequence file
RootStored ==
    /\ history # <<>>
    /\ history[1].hook = "on_start"
    /\ history[1].raised = "none"
    /\ FilesCb \in { callbacks[c] : c \in 1..Len(callbacks) }
    /\ \A i \in 1..Len(subject_files) : get_sequences(subject_files[i]) # <<>>

RootIsLongestCommonDirectory ==
    /\ file_root # <<>>
    /\ IsLongestCommonDirectory(file_root[1])
    /\ \E j \in history[1].first..history[1].last :
          /\ writer[j].op = "write"
          /\ writer[j].key = FILE_ROOT
          /\ writer[j].value = StrsVal(file_root[1])

\* C9: the root on_start stores in file_root and writes to meta/file_root is
\* the longest common directory ancestor of all the files: a strict ancestor
\* of every file, and no longer path is one; also for a single file path.
C9_RootIsDirectory == RootStored => RootIsLongestCommonDirectory

\* the same when the subjects refer to two different paths at least: there
\* the claim holds, so that it fails only for a file set of one path
C9_WhenSeveralPaths ==
    (RootStored /\ Cardinality(AllFiles) > 1) => RootIsLongestCommonDirectory

C9_WhenSeveralPaths_Witness ==
    /\ RootStored
    /\ Cardinality(AllFiles) = 2
    /\ file_root = << <<"a">> >>

\* the last call was the file event of file `file`, cell `index` of `key`, and
\* it filled the cell with a path without parent step that, joined to the
\* root, is the file's path
FilledRelative(key, index, file) ==
    /\ Len(trace) = 1
    /\ Len(trace[1].calls) = 1
    /\ LET call == trace[1].calls[1]
       IN /\ call.op = "fill"
          /\ call.key = key
          /\ call.index = index
          /\ \A n \in 1..Len(call.value.strs) : call.value.strs[n] # ".."
          /\ join(file_root[1], call.value.strs) = file

FileEventFillsRelative ==
    /\ LastCall.hook = "on_image_file" =>
          FilledRelative(SEQ_FILES, <<params.subject_index, params.sequence_index>>,
                         get_sequences(subject_files[params.subject_index + 1])
                              [params.sequence_index + 1])
    /\ LastCall.hook = "on_gt_file" =>
          FilledRelative(GT_FILES, <<params.subject_index, params.gt_index>>,
                         get_gts(subject_files[params.subject_index + 1])
                              [params.gt_index + 1])

\* C10: the file event of a file of subject_files fills the file's cell of
\* meta/sequence_files (meta/gt_files) with a path that has no parent step and
\* that, joined to the stored root, gives back the file's path.
C10_RelativePathRoundTrip ==
    (RootStored /\ callbacks = <<FilesCb>>) => FileEventFillsRelative

\* the same when the subjects refer to two different paths at least
C10_WhenSeveralPaths ==
    (RootStored /\ callbacks = <<FilesCb>> /\ Cardinality(AllFiles) > 1) =>
        FileEventFillsRelative

C10_WhenSeveralPaths_Witness ==
    /\ RootStored
    /\ callbacks = <<FilesCb>>
    /\ LastCall.hook = "on_gt_file"
    /\ file_root = << <<"a">> >>
    /\ trace[1].calls[1].value.strs = <<"b", "x">>

\* the last call was a file event that reached WriteFilesCallback with a root
\* stored, for a file that does not lie under that root
FileOutsideRoot ==
    /\ history # <<>>
    /\ LastCall.hook \in {"on_image_file", "on_gt_file"}
    /\ callbacks = <<FilesCb>>
    /\ Len(trace) = 1
    /\ file_root # <<>>
    /\ ~IsPrefix(file_root[1], params.file)

\* C11: a file event of WriteFilesCallback for a file that does not lie under
\* the stored root fails with a path-resolution error and fills nothing.
C11_OutsideRootFails ==
    FileOutsideRoot =>
        /\ trace[1].outcome = "raised"
        /\ trace[1].calls = <<>>

\* what the code does for such a file: the call returns and fills the cell
\* with a path that climbs out of the root with parent steps
C11_OutsideRootIsFilled ==
    FileOutsideRoot =>
        /\ trace[1].outcome = "returned"
        /\ Len(trace[1].calls) = 1
        /\ trace[1].calls[1].op = "fill"
        /\ trace[1].calls[1].value.strs[1] = ".."

C11_OutsideRootIsFilled_Witness ==
    /\ FileOutsideRoot
    /\ LastCall.hook = "on_gt_file"
    /\ trace[1].calls[1].value.strs = <<"..", "elsewhere", "T1">>

\* the writer calls `op` on `key`
CallsOn(op, key) ==
    { j \in 1..Len(writer) : writer[j].op = op /\ writer[j].key = key }

\* the fills of `key` at `index`
CellFills(key, index) == { j \in CallsOn("fill", key) : writer[j].index = index }

\* where the steps of the relative path `rel` lead from the directory `root`
Walk(root, rel) ==
    LET at[k \in 0..Len(rel)] ==
            IF k = 0 THEN root
            ELSE IF rel[k] = "." THEN at[k - 1]
            ELSE IF rel[k] = ".." THEN SubSeq(at[k - 1], 1, Len(at[k - 1]) - 1)
            ELSE Append(at[k - 1], rel[k])
    IN at[Len(rel)]

\* the one value written to `key`
Written(key) == writer[CHOOSE j \in CallsOn("write", key) : TRUE].value

\* every cell of the array `key` of the files `files(i)` of the subjects was
\* filled once, with a path that leads from the written root to the file, and
\* nothing else of the array was filled
FileCellsFilledOnce(key, files(_)) ==
    /\ \A i \in 1..Len(subject_files) : \A k \in 1..Len(files(subject_files[i])) :
          /\ Cardinality(CellFills(key, <<i - 1, k - 1>>)) = 1
          /\ \A j \in CellFills(key, <<i - 1, k - 1>>) :
                Walk(Written(FILE_ROOT).strs, writer[j].value.strs)
                    = files(subject_files[i])[k]
    /\ \A j \in CallsOn("fill", key) :
          \E i \in 1..Len(subject_files) : \E k \in 1..Len(files(subject_files[i])) :
             writer[j].index = <<i - 1, k - 1>>

\* a whole run over all five writing callbacks with has_gt true, every subject
\* with a file for each sequence name and each ground-truth name
WholeRun ==
    /\ pc = "done"
    /\ callbacks = Everything
    /\ has_gt
    /\ \A i \in 1..Len(subject_files) :
          /\ Len(get_sequences(subject_files[i])) = Len(params.sequence_names)
          /\ Len(get_gts(subject_files[i])) = Len(params.gt_names)

\* C12: after a whole run in driver order over N subjects with S sequence
\* names and G ground-truth names, has_gt true, through a ComposeCallback of
\* the five writing callbacks: meta/subjects[i] is the identifier of subject
\* i; every cell of meta/sequence_files and meta/gt_files was filled once,
\* with the file's path relative to the root; meta/file_root,
\* meta/sequence_names and meta/gt_names were written once; data/sequences/<i>
\* and data/gts/<i> hold the arrays of subject i.
C12_WholeRun ==
    WholeRun =>
        /\ \A i \in 1..Len(subject_files) :
              /\ Cardinality(CellFills(SUBJECT, <<i - 1>>)) = 1
              /\ \A j \in CellFills(SUBJECT, <<i - 1>>) :
                    writer[j].value = StrVal(subject_files[i].subject)
              /\ Cardinality(CallsOn("write", SEQ_PATH \o "/" \o Digit[i])) = 1
              /\ Written(SEQ_PATH \o "/" \o Digit[i]) = ArrayVal("images", i - 1)
              /\ Cardinality(CallsOn("write", GT_PATH \o "/" \o Digit[i])) = 1
              /\ Written(GT_PATH \o "/" \o Digit[i]) = ArrayVal("labels", i - 1)
        /\ Cardinality(CallsOn("fill", SUBJECT)) = Len(subject_files)
        /\ FileCellsFilledOnce(SEQ_FILES, get_sequences)
        /\ FileCellsFilledOnce(GT_FILES, get_gts)
        /\ Cardinality(CallsOn("write", FILE_ROOT)) = 1
        /\ Cardinality(CallsOn("write", SEQ_NAMES)) = 1
        /\ Written(SEQ_NAMES) = StrsVal(params.sequence_names)
        /\ Cardinality(CallsOn("write", GT_NAMES)) = 1
        /\ Written(GT_NAMES) = StrsVal(params.gt_names)

\* the run over 2 subjects, 2 sequence names and 1 ground-truth name
C12_Witness ==
    /\ WholeRun
    /\ Len(subject_files) = 2
    /\ Len(params.sequence_names) = 2
    /\ Len(params.gt_names) = 1
    /\ Written(FILE_ROOT) = StrsVal(<<"data">>)
    /\ \E j \in CellFills(GT_FILES, <<1, 0>>) :
          writer[j].value = StrsVal(<<"Subject_1", "GT1">>)

\* the fills of a key reserved before them, inside the reserved shape
ReservedFills ==
    { j \in 1..Len(writer) :
        /\ writer[j].op = "fill"
        /\ \E r \in Reserves(writer[j].key) :
              r < j /\ InBounds(writer[j].index, writer[r].shape) }

\* the fill j is the last one of its key at its index
IsLastFill(j) ==
    \A d \in (j + 1)..Len(writer) :
        ~(writer[d].op = "fill" /\ writer[d].key = writer[j].key
            /\ writer[d].index = writer[j].index)

RoundTrip(j) == ReadBack(writer, writer[j].key, writer[j].index) = writer[j].value

\* C13: for every key the callbacks reserve and fill, the value filled at a
\* valid index and read back equals the value filled; so for meta/shapes,
\* reserved with 8-bit unsigned elements, whatever the image size.
C13_RoundTrip ==
    \A j \in ReservedFills : IsLastFill(j) => RoundTrip(j)

\* the round trip holds for the keys other than meta/shapes, and for
\* meta/shapes the row read back is the image size modulo 256
C13_RoundTripButShapes ==
    \A j \in ReservedFills :
        IsLastFill(j) =>
            IF writer[j].key = SHAPE
            THEN LET back == ReadBack(writer, SHAPE, writer[j].index).nums
                 IN /\ Len(back) = Len(writer[j].value.nums)
                    /\ \A n \in 1..Len(back) :
                          /\ back[n] \in 0..255
                          /\ (writer[j].value.nums[n] - back[n]) % 256 = 0
            ELSE RoundTrip(j)

\* the size (10, 20, 300) filled into meta/shapes is read back as (10, 20, 44)
C13_RoundTripButShapes_Witness ==
    \E j \in ReservedFills :
        /\ writer[j].key = SHAPE
        /\ writer[j].value.nums = <<10, 20, 300>>
        /\ ReadBack(writer, SHAPE, writer[j].index).nums = <<10, 20, 44>>
        /\ \E d \in ReservedFills : writer[d].key = SEQ_FILES

\* the fills of row i of `key` among the writer calls w
RowFillsIn(w, key, i) ==
    { j \in 1..Len(w) : w[j].op = "fill" /\ w[j].key = key /\ w[j].index = <<i>> }

\* C14: the guard of WriteImageInformationCallback compares only against the
\* last recorded subject index: a valid image-file event of a subject whose
\* rows were filled before, coming after an event of another subject, fills
\* the rows once more; out of contiguous order (subjects 0, 1, 0) the rows of
\* a subject are filled more than once.
C14_GuardSeesOnlyLast ==
    [][ (InfoCalled("on_image_file") /\ params'.raw_image.is_image
           /\ prev_subject_index # params'.subject_index) =>
          \A key \in InfoKeys :
             Cardinality(RowFillsIn(writer', key, params'.subject_index))
                = Cardinality(RowFillsIn(writer, key, params'.subject_index)) + 1 ]_vars

\* valid image-file events of subjects 0, 1, 0: the rows of subject 0 were
\* filled twice
C14_Witness ==
    /\ Len(history) = 3
    /\ \A h \in 1..3 : history[h].hook = "on_image_file" /\ history[h].raised = "none"
    /\ <<history[1].subject_index, history[2].subject_index, history[3].subject_index>>
          = <<0, 1, 0>>
    /\ params.raw_image.is_image
    /\ \A key \in InfoKeys : Cardinality(RowFills(key, 0)) = 2
    /\ \A key \in InfoKeys : Cardinality(RowFills(key, 1)) = 1

\* C15: when on_image_file of WriteImageInformationCallback raises the
\* type-validation error it has issued no fill and prev_subject_index keeps
\* its value; prev_subject_index changes only to the subject index of a call
\* that made its three fills; so the image-file event with a valid image that
\* follows a raising one of the same subject index fills the subject's rows.
C15_RaisesBeforeRecording ==
    [][ InfoCalled("on_image_file") =>
          /\ InfoOf(trace').outcome = "raised" =>
                /\ InfoOf(trace').error = "ValueError"
                /\ InfoOf(trace').calls = <<>>
                /\ prev_subject_index' = prev_subject_index
          /\ prev_subject_index' # prev_subject_index =>
                /\ prev_subject_index' = params'.subject_index
                /\ InfoOf(trace').calls
                      = ThreeFills(params'.subject_index, params'.raw_image)
          /\ (PreviousWasImageOf(params'.subject_index)
                /\ InfoOf(trace).outcome = "raised"
                /\ params'.raw_image.is_image) =>
                /\ InfoOf(trace').calls
                      = ThreeFills(params'.subject_index, params'.raw_image)
                /\ prev_subject_index' = params'.subject_index ]_vars

\* an image-file event that raised on its raw_image, then one of the same
\* subject with a valid image: it filled the three rows
C15_Witness ==
    /\ Len(history) >= 2
    /\ LastCall.hook = "on_image_file"
    /\ history[Len(history) - 1].hook = "on_image_file"
    /\ history[Len(history) - 1].subject_index = LastCall.subject_index
    /\ history[Len(history) - 1].raised = "ValueError"
    /\ history[Len(history) - 1].first > history[Len(history) - 1].last
    /\ InfoInvoked(trace)
    /\ InfoOf(trace).calls = ThreeFills(LastCall.subject_index, params.raw_image)
    /\ prev_subject_index = LastCall.subject_index

\* all the files of the subjects in one list: subject by subject, the
\* sequence files before the ground truths
AllFilesListOf(files) ==
    LET upto[n \in 0..Len(files)] ==
            IF n = 0 THEN <<>>
            ELSE upto[n - 1] \o get_sequences(files[n])
                 \o (IF get_gts_is_none(files[n]) THEN <<>> ELSE get_gts(files[n]))
    IN upto[Len(files)]

\* d is the longest path that is a prefix of every path of the set
IsLongestCommonPrefix(d, paths) ==
    /\ \A f \in paths : IsPrefix(d, f)
    /\ \A f \in paths : \A n \in 0..Len(f) :
          (\A g \in paths : IsPrefix(SubSeq(f, 1, n), g)) => n <= Len(d)

Reversed(l) == [k \in 1..Len(l) |-> l[Len(l) + 1 - k]]

\* the subjects in the order perm
Reordered(files, perm) == [i \in 1..Len(files) |-> files[perm[i]]]

\* the subjects with the files of each in reverse order
FilesReversed(files) ==
    [i \in 1..Len(files) |->
        SubjectFile(files[i].subject, Reversed(get_sequences(files[i])),
                    get_gts_is_none(files[i]), Reversed(get_gts(files[i])))]

\* on_start of WriteFilesCallback has returned
RootComputed ==
    /\ history # <<>>
    /\ history[1].hook = "on_start"
    /\ history[1].raised = "none"
    /\ FilesCb \in { callbacks[c] : c \in 1..Len(callbacks) }

\* C16: for subjects that each own a file, the two-stage computation of
\* _get_common_path gives the common path computed in one step over all the
\* files of all the subjects, whatever the order of the subjects and of the
\* files.
C16_TwoStageIsOneStep ==
    RootComputed =>
        /\ file_root = << commonpath(AllFilesListOf(subject_files)).path >>
        /\ IsLongestCommonPrefix(file_root[1], AllFiles)
        /\ \A perm \in Permutations(1..Len(subject_files)) :
              /\ get_common_path(Reordered(subject_files, perm)).path = file_root[1]
              /\ get_common_path(FilesReversed(Reordered(subject_files, perm))).path
                    = file_root[1]

\* two subjects with different common paths: /a/b/x of the first, /a of the
\* second; the root is /a
C16_Witness ==
    /\ RootComputed
    /\ Len(subject_files) = 2
    /\ get_subject_common(subject_files[1]).path = <<"a", "b", "x">>
    /\ get_subject_common(subject_files[2]).path = <<"a">>
    /\ ~get_gts_is_none(subject_files[2])
    /\ file_root = << <<"a">> >>

\* the last on_start among the hook calls made so far (0: none)
LastStart ==
    MaxOf({ h \in 1..Len(history) : history[h].hook = "on_start" })

\* the last call is an image-file event with a valid image that reached
\* WriteImageInformationCallback, the first image-file event of its subject
\* in the run that the last on_start opened; every run was opened by on_start
FirstImageOfSubjectInRun ==
    /\ history # <<>>
    /\ history[1].hook = "on_start"
    /\ LastCall.hook = "on_image_file"
    /\ params.raw_image.is_image
    /\ InfoInvoked(trace)
    /\ \A h \in (LastStart + 1)..(Len(history) - 1) :
          ~(history[h].hook = "on_image_file"
              /\ history[h].subject_index = LastCall.subject_index)

Starts == { h \in 1..Len(history) : history[h].hook = "on_start" }

\* C17: in every run opened by on_start the first image-file event of a
\* subject fills the subject's rows, also when the instance served an earlier
\* run: on_start re-arms the guard.
C17_StartRearmsGuard ==
    FirstImageOfSubjectInRun =>
        InfoOf(trace).calls = ThreeFills(LastCall.subject_index, params.raw_image)

\* the same in the first run of an instance: there the claim holds
C17_InFirstRun ==
    (FirstImageOfSubjectInRun /\ Cardinality(Starts) = 1) =>
        InfoOf(trace).calls = ThreeFills(LastCall.subject_index, params.raw_image)

C17_InFirstRun_Witness ==
    /\ FirstImageOfSubjectInRun
    /\ Cardinality(Starts) = 1
    /\ Len(history) = 4
    /\ LastCall.subject_index = 0
    /\ prev_subject_index = 0
    /\ Cardinality(RowFills(SHAPE, 1)) = 1

\* C18: every fill of meta/gt_files that on_gt_file of WriteFilesCallback
\* issues goes to a key that the on_start of the run reserved; with has_gt
\* false, where on_start does not reserve meta/gt_files, no gt-file event
\* fills it.
C18_GtFillsAreReserved ==
    \A j \in CallsOn("fill", GT_FILES) :
        /\ has_gt
        /\ \E r \in Reserves(GT_FILES) : r < j /\ DuringOnStart(r)

\* the same in the runs whose bundle has has_gt true: there the claim holds
C18_WhenHasGt ==
    has_gt =>
        \A j \in CallsOn("fill", GT_FILES) :
            \E r \in Reserves(GT_FILES) : r < j /\ DuringOnStart(r)

C18_WhenHasGt_Witness ==
    /\ has_gt
    /\ history # <<>>
    /\ LastCall.hook = "on_gt_file"
    /\ LastCall.subject_index = 1
    /\ CellFills(GT_FILES, <<1, 0>>) # {}

\* the hook call of this step, dispatched through the nesting `groups` of the
\* children, from the state before the step
NestedCall(groups) ==
    NestedForEach(groups, callbacks, history'[Len(history')].hook, params',
                  [writer |-> writer, prev_subject_index |-> prev_subject_index,
                   file_root |-> file_root, raised |-> "none", trace |-> <<>>])

SameAsFlat(res) ==
    /\ res.trace = trace'
    /\ res.raised = raised'
    /\ res.writer = writer'
    /\ res.prev_subject_index = prev_subject_index'
    /\ res.file_root = file_root'

\* C19: composition is flat: an event dispatched through any nesting of the
\* children A, B, C ([[A, B], C], [A, [B, C]], ...) gives, from the same
\* state, the ordered trace of child invocations, the point of abort, the
\* error and the state of the callbacks and the writer that [A, B, C] gives;
\* so the two agree on every event sequence.
C19_CompositionIsFlat ==
    [][ Len(history') = Len(history) + 1 =>
          \A groups \in Groupings(1, Len(callbacks)) : SameAsFlat(NestedCall(groups)) ]_vars

\* an image-file event over [WriteFilesCallback, WriteImageInformationCallback,
\* WriteDataCallback] that the second child aborted, after the first had
\* filled its cell
C19_Witness ==
    /\ history # <<>>
    /\ callbacks \in Triples
    /\ callbacks = <<FilesCb, InfoCb, DataCb>>
    /\ [nested |-> TRUE, first |-> 1, last |-> 2] \in
          { g[1] : g \in Groupings(1, Len(callbacks)) }
    /\ LastCall.hook = "on_image_file"
    /\ LastCall.subject_index = 1
    /\ raised = "ValueError"
    /\ Len(trace) = 2
    /\ trace[2].outcome = "raised"

====
